---- MODULE Spec2Model ----
(***************************************************************************)
(* A model of cc2olx/olx.py: the conversion of a normalized Common         *)
(* Cartridge outline into an OLX document tree (OlxExport), the static     *)
(* link rewriter (_process_static_links) and the link classifier           *)
(* (process_link).                                                         *)
(*                                                                         *)
(* Text.  A Python string is modelled as a sequence of atoms.  An atom is  *)
(* either one character ("=", "%", "2", ...) or a run of characters that   *)
(* no other atom shares ("src", "IMS-CC-FILEBASE", "youtube", ...), so     *)
(* that substring search, regular-expression matching and replacement on   *)
(* the atom sequence agree with the same operation on the characters.      *)
(***************************************************************************)
EXTENDS Integers, Sequences, FiniteSets, TLC

VARIABLES
    cartridge,   \* self.cartridge: [org, title, normalized]
    doc,         \* self.doc: the sequence of created nodes, empty for None
    stack,       \* the active calls of _add_olx_nodes, innermost last
    pc,          \* "init" | "running" | "returned" | "raised"
    error,       \* the content type named by the raised OlxExportException
    html,        \* the text the static-link rewriter was last given or produced
    rewritten,   \* the texts produced by successive runs of the rewriter
    link,        \* the link details handed to process_link
    classified   \* the list of results of process_link

vars == <<cartridge, doc, stack, pc, error, html, rewritten, link, classified>>

None == "None"

(***************************************************************************)
(* Text helpers.                                                           *)
(***************************************************************************)

\* s[from..] (Python s[from-1:]).
Drop(s, n) == SubSeq(s, n + 1, Len(s))

\* Python `old in s` for a non-empty old.
Contains(s, old) ==
    \E p \in 1..(Len(s) - Len(old) + 1) : SubSeq(s, p, p + Len(old) - 1) = old

\* The number of places at which old occurs in s, overlapping ones included.
Occurrences(s, old) ==
    Cardinality({p \in 1..(Len(s) - Len(old) + 1) :
                    SubSeq(s, p, p + Len(old) - 1) = old})

RECURSIVE Replace(_, _, _)
\* Python str.replace(old, new) for a non-empty old: every non-overlapping
\* occurrence, left to right.
Replace(s, old, new) ==
    IF Len(s) < Len(old) THEN s
    ELSE IF SubSeq(s, 1, Len(old)) = old
         THEN new \o Replace(Drop(s, Len(old)), old, new)
         ELSE <<Head(s)>> \o Replace(Tail(s), old, new)

\* \s of the re module, over the atoms of the model.
Whitespace == {" ", "\t", "\n"}

RECURSIVE SkipWs(_, _)
\* The position after the greedy \s* that starts at p.
SkipWs(s, p) ==
    IF p <= Len(s) /\ s[p] \in Whitespace THEN SkipWs(s, p + 1) ELSE p

(***************************************************************************)
(* urllib.parse.unquote.  A "%" followed by two hexadecimal digits becomes *)
(* the character with that code; any other "%" stays.  One pass, left to   *)
(* right: the product of a decoding is not decoded again.                  *)
(***************************************************************************)
HexDigits == {"2", "5"}

HexToChar(a, b) ==
    CASE a = "2" /\ b = "2" -> "\""
      [] a = "2" /\ b = "5" -> "%"
      [] a = "5" /\ b = "2" -> "R"
      [] a = "5" /\ b = "5" -> "U"

RECURSIVE Unquote(_)
Unquote(s) ==
    IF s = <<>> THEN <<>>
    ELSE IF /\ Head(s) = "%"
            /\ Len(s) >= 3
            /\ s[2] \in HexDigits
            /\ s[3] \in HexDigits
         THEN <<HexToChar(s[2], s[3])>> \o Unquote(Drop(s, 3))
         ELSE <<Head(s)>> \o Unquote(Tail(s))

(***************************************************************************)
(* re.findall(r'src\s*=\s*"(.+?)"', html)                                  *)
(***************************************************************************)

\* The match of the pattern that starts at p: the captured group is
\* s[g..e-1] and the closing quote is s[e].  The group is lazy and has at
\* least one character, none of them a newline.
SrcMatchAt(s, p) ==
    LET q1 == SkipWs(s, p + 1)
        q2 == SkipWs(s, q1 + 1)
        g  == q2 + 1
        closing == {k \in (g + 1)..Len(s) : s[k] = "\""}
        e  == IF closing = {} THEN 0
              ELSE CHOOSE k \in closing : \A k2 \in closing : k <= k2
    IN  IF /\ p <= Len(s) /\ s[p] = "src"
           /\ q1 <= Len(s) /\ s[q1] = "="
           /\ q2 <= Len(s) /\ s[q2] = "\""
           /\ e # 0
           /\ \A k \in g..(e - 1) : s[k] # "\n"
        THEN [ok |-> TRUE, g |-> g, e |-> e]
        ELSE [ok |-> FALSE, g |-> 0, e |-> 0]

RECURSIVE SrcMatchesFrom(_, _)
\* The non-overlapping matches found scanning from p, as [g, e] records.
SrcMatchesFrom(s, p) ==
    IF p > Len(s) THEN <<>>
    ELSE LET m == SrcMatchAt(s, p)
         IN  IF m.ok THEN <<m>> \o SrcMatchesFrom(s, m.e + 1)
             ELSE SrcMatchesFrom(s, p + 1)

\* The list findall returns: the captured src values, in order.
FindSrcs(s) ==
    LET ms == SrcMatchesFrom(s, 1)
    IN  [i \in 1..Len(ms) |-> SubSeq(s, ms[i].g, ms[i].e - 1)]

(***************************************************************************)
(* OlxExport._process_static_links                                         *)
(***************************************************************************)
FILEBASE == <<"IMS-CC-FILEBASE">>
PLACEHOLDER == <<"$", "IMS-CC-FILEBASE", "$">>
STATIC == <<"/static">>

\* new_src of line 115.
NewSrc(src) == Replace(Unquote(src), PLACEHOLDER, STATIC)

\* One turn of the loop body, lines 114-116, without the guard.
RewriteAlways(text, src) == Replace(text, src, NewSrc(src))

\* One turn of the loop body with the guard put on the whole text.
RewriteOneIfHtml(text, src) ==
    IF Contains(text, FILEBASE) THEN Replace(text, src, NewSrc(src)) ELSE text

\* One turn of the loop body, lines 114-116.
RewriteOne(text, src) ==
    IF Contains(src, FILEBASE) THEN Replace(text, src, NewSrc(src)) ELSE text

RECURSIVE RewriteLoop(_, _)
\* The loop of lines 113-116 over the values found in the original text.
RewriteLoop(text, srcs) ==
    IF srcs = <<>> THEN text
    ELSE RewriteLoop(RewriteOne(text, Head(srcs)), Tail(srcs))

ProcessStaticLinks(text) == RewriteLoop(text, FindSrcs(text))

(***************************************************************************)
(* process_link                                                            *)
(***************************************************************************)

\* Atoms of one character: what "." of a regular expression can match
\* (apart from the newline).
SingleChars == {".", "X", "a", "-", "&", "=", "/", "_", " ", "\t", "\"", "'"}

\* Atoms made of word characters only (\w), and the hyphen: [-\w].
IdChars == {"a", "X", "_", "-", "youtube", "com"}

RECURSIVE IdEnd(_, _)
\* The last position of the greedy run [-\w]+ that starts at p.
IdEnd(s, p) ==
    IF p + 1 <= Len(s) /\ s[p + 1] \in IdChars THEN IdEnd(s, p + 1) ELSE p

\* Whether r"youtube.com/watch\?v=([-\w]+)" matches at p, with its dot.
YtMatchAt(s, p) ==
    /\ p + 4 <= Len(s)
    /\ s[p] = "youtube"
    /\ s[p + 1] \in SingleChars
    /\ s[p + 2] = "com"
    /\ s[p + 3] = "/watch?v="
    /\ s[p + 4] \in IdChars

\* re.search: the leftmost match; group 1, or None.
YtSearch(s) ==
    LET at == {p \in 1..Len(s) : YtMatchAt(s, p)}
    IN  IF at = {} THEN None
        ELSE LET p == CHOOSE q \in at : \A q2 \in at : q <= q2
             IN  SubSeq(s, p + 4, IdEnd(s, p + 4))

\* details.get("text", "")
LinkText(details) ==
    IF "text" \in DOMAIN details THEN details["text"] ELSE <<>>

ProcessLink(details) ==
    LET ytmatch == YtSearch(details["href"])
    IN  IF ytmatch # None
        THEN [type |-> "video", details |-> [youtube |-> ytmatch]]
        ELSE [type |-> "html",
              details |-> [html |-> <<"<a href='">> \o details["href"]
                                    \o <<"'>">> \o LinkText(details)
                                    \o <<"</a>">>]]

(***************************************************************************)
(* Bounded inputs.                                                         *)
(***************************************************************************)

RECURSIVE Flatten(_)
\* The concatenation of a sequence of texts.
Flatten(ss) == IF ss = <<>> THEN <<>> ELSE Head(ss) \o Flatten(Tail(ss))

\* All texts made of at most n of the given pieces.
TextsOf(pieces, n) ==
    {Flatten(ps) : ps \in UNION {[1..k -> pieces] : k \in 0..n}}

MaxHtmlPieces == 4
MaxRuns == 2
MaxHrefPieces == 4

HtmlPieces ==
    { <<"src", "=", "\"">>, <<"href", "=", "\"">>, <<"\"">>,
      PLACEHOLDER, FILEBASE, <<"%", "2", "5">>, <<"%", "2", "5", "2", "5">>,
      <<"x">> }

HtmlInputs == TextsOf(HtmlPieces, MaxHtmlPieces)

HrefPieces ==
    { <<"youtube", ".", "com", "/watch?v=">>,
      <<"youtube", "X", "com", "/watch?v=">>,
      <<"youtube", "com", "/watch?v=">>,
      <<"//">>, <<"a">>, <<"-">>, <<"&">> }

LinkInputs ==
    LET hrefs == TextsOf(HrefPieces, MaxHrefPieces)
    IN  {[href |-> h] : h \in hrefs}
        \cup {[href |-> h, text |-> t] : h \in hrefs, t \in {<<>>, <<"a">>}}

(***************************************************************************)
(* The rewriter run on a text, and again on its own output.                *)
(***************************************************************************)
Idle ==
    /\ cartridge = None /\ doc = <<>> /\ stack = <<>>
    /\ pc = "init" /\ error = None

RewriteInit ==
    /\ Idle
    /\ html \in HtmlInputs
    /\ rewritten = <<>>
    /\ link = None /\ classified = <<>>

\* The text the next run is given.
Current == IF rewritten = <<>> THEN html ELSE rewritten[Len(rewritten)]

RunRewriter ==
    /\ Len(rewritten) < MaxRuns
    /\ rewritten' = Append(rewritten, ProcessStaticLinks(Current))
    /\ UNCHANGED <<cartridge, doc, stack, pc, error, html, link, classified>>

RewriteSpec == RewriteInit /\ [][RunRewriter]_vars

(***************************************************************************)
(* The classifier applied to link details.                                 *)
(***************************************************************************)
LinkInit ==
    /\ Idle
    /\ html = <<>> /\ rewritten = <<>>
    /\ link \in LinkInputs
    /\ classified = <<>>

Classify ==
    /\ classified = <<>>
    /\ classified' = <<ProcessLink(link)>>
    /\ UNCHANGED <<cartridge, doc, stack, pc, error, html, rewritten, link>>

LinkSpec == LinkInit /\ [][Classify]_vars

(***************************************************************************)
(* The output document.  self.doc is modelled as the sequence of the nodes *)
(* created so far; a node is named by its index.  Node 1 is the Document,  *)
(* node 2 its comment, node 3 the course element.  Besides the fields of a *)
(* DOM node (tag, attrs, text, kids) a node records what it was created    *)
(* for: origin, the path of the outline node (the indices from             *)
(* normalized['children'] down), and ord, its place in the list that       *)
(* _create_olx_nodes returned.                                             *)
(***************************************************************************)
NoAttrs == [a \in {} |-> None]

\* doc.createElement(tag)
CreateElement(tag) ==
    [tag |-> tag, attrs |-> NoAttrs, text |-> None, kids |-> <<>>]

\* node.setAttribute(name, value)
SetAttribute(node, name, value) ==
    [node EXCEPT !.attrs = (name :> value) @@ node.attrs]

\* The content types of lines 24-28.
HTML == "html"
LINK == "link"
VIDEO == "video"
LTI == "lti"
QTI == "qti"

MISSING == <<"<p>MISSING CONTENT</p>">>

\* cartridge.get_resource_content(idref): the resources of the cartridges
\* of the model, one of each kind; an unknown reference gives (None, None).
GetResourceContent(idref) ==
    CASE idref = "res_html" ->
            [type |-> HTML,
             details |-> [html |-> <<"<img ", "src", "=", "\"", "$",
                                     "IMS-CC-FILEBASE", "$", "/a.png", "\"",
                                     ">">>]]
      [] idref = "res_link" ->
            [type |-> LINK,
             details |-> [href |-> <<"//", "youtube", ".", "com",
                                     "/watch?v=", "a", "-", "a", "&", "a">>,
                          text |-> <<"a">>]]
      [] idref = "res_weblink" ->
            [type |-> LINK, details |-> [href |-> <<"//", "a">>]]
      [] idref = "res_lti" ->
            [type |-> LTI,
             details |-> [title |-> "Tool", description |-> "D",
                          launch_url |-> "U", height |-> "400",
                          width |-> "600",
                          custom_parameters |-> <<<<"a", "1">>, <<"b", "2">>>>]]
      [] idref = "res_qti" ->
            [type |-> QTI, details |-> <<"q1", "q2">>]
      [] idref = "res_qti_empty" ->
            [type |-> QTI, details |-> <<>>]
      [] idref = "res_discussion" ->
            [type |-> "discussion", details |-> [text |-> <<"x">>]]
      [] OTHER -> [type |-> None, details |-> None]

\* _get_content without the default of lines 100-104.
GetContentNoDefault(element_data) ==
    LET found ==
            IF "identifierref" \in DOMAIN element_data
            THEN GetResourceContent(element_data["identifierref"])
            ELSE [type |-> None, details |-> None]
    IN  IF found.type = LINK THEN ProcessLink(found.details) ELSE found

\* OlxExport._get_content
GetContent(element_data) ==
    LET found ==
            IF "identifierref" \in DOMAIN element_data
            THEN GetResourceContent(element_data["identifierref"])
            ELSE [type |-> None, details |-> None]
        content ==
            IF found.type = None
            THEN [type |-> HTML, details |-> [html |-> MISSING]]
            ELSE found
    IN  IF content.type = LINK THEN ProcessLink(content.details) ELSE content

RECURSIVE FormatParams(_)
\* ', '.join('"{key}={value}"' ...) over the items of custom_parameters.
FormatParams(items) ==
    IF items = <<>> THEN <<>>
    ELSE <<"\"", items[1][1], "=", items[1][2], "\"">>
         \o (IF Len(items) > 1 THEN <<", ">> ELSE <<>>)
         \o FormatParams(Tail(items))

\* OlxExport._create_lti_node
CreateLtiNode(details) ==
    LET n0 == CreateElement("lti_consumer")
        n1 == SetAttribute(n0, "custom_parameters",
                  <<"[">> \o FormatParams(details.custom_parameters) \o <<"]">>)
        n2 == SetAttribute(n1, "description", details.description)
        n3 == SetAttribute(n2, "display_name", details.title)
        n4 == SetAttribute(n3, "inline_height", details.height)
        n5 == SetAttribute(n4, "inline_width", details.width)
        n6 == SetAttribute(n5, "launch_url", details.launch_url)
        n7 == SetAttribute(n6, "modal_height", details.height)
        n8 == SetAttribute(n7, "modal_width", details.width)
    IN  SetAttribute(n8, "xblock-family", "xblock.v1")

\* QtiExport(doc).create_qti_node(details): zero or more nodes, here one
\* problem element for each item of the details.
CreateQtiNode(details) ==
    [k \in 1..Len(details) |->
        SetAttribute(CreateElement("problem"), "url_name", details[k])]

\* _create_olx_nodes with an else branch that returns the empty list.
CreateOlxNodesLenient(content_type, details) ==
    CASE content_type = HTML ->
            [raised |-> FALSE,
             nodes |-> << [CreateElement("html") EXCEPT
                              !.text = ProcessStaticLinks(details.html)] >>]
      [] content_type = VIDEO ->
            [raised |-> FALSE,
             nodes |-> << SetAttribute(
                            SetAttribute(CreateElement("video"), "youtube",
                                         <<"1.00:">> \o details.youtube),
                            "youtube_id_1_0", details.youtube) >>]
      [] content_type = LTI ->
            [raised |-> FALSE, nodes |-> <<CreateLtiNode(details)>>]
      [] content_type = QTI ->
            [raised |-> FALSE, nodes |-> CreateQtiNode(details)]
      [] OTHER ->
            [raised |-> FALSE, nodes |-> <<>>, type |-> content_type]

\* OlxExport._create_olx_nodes: the nodes, or the exception and the type
\* its message names.
CreateOlxNodes(content_type, details) ==
    CASE content_type = HTML ->
            [raised |-> FALSE,
             nodes |-> << [CreateElement("html") EXCEPT
                              !.text = ProcessStaticLinks(details.html)] >>]
      [] content_type = VIDEO ->
            [raised |-> FALSE,
             nodes |-> << SetAttribute(
                            SetAttribute(CreateElement("video"), "youtube",
                                         <<"1.00:">> \o details.youtube),
                            "youtube_id_1_0", details.youtube) >>]
      [] content_type = LTI ->
            [raised |-> FALSE, nodes |-> <<CreateLtiNode(details)>>]
      [] content_type = QTI ->
            [raised |-> FALSE, nodes |-> CreateQtiNode(details)]
      [] OTHER ->
            [raised |-> TRUE, nodes |-> <<>>, type |-> content_type]

(***************************************************************************)
(* Outlines.  An outline node is a function whose domain is the set of     *)
(* keys it has, among "title", "identifierref" and "children"; a level is  *)
(* 1 for a chapter, 2 for a sequential, 3 for a vertical and 4 or more     *)
(* for content.                                                            *)
(***************************************************************************)
MaxOutlineNodes == 4
MaxContentNodes == 3

\* The title a chapter, a sequential and a vertical has when it has one.
Titles == <<"A", "B", "A">>

\* The content of a vertical: missing, unresolved, and the content types
\* with and without a title.
ContentLabels ==
    { NoAttrs,
      [identifierref |-> "res_unknown"],
      [title |-> "A", identifierref |-> "res_html"],
      [identifierref |-> "res_link"],
      [title |-> "A", identifierref |-> "res_link"],
      [identifierref |-> "res_lti"],
      [title |-> "A", identifierref |-> "res_lti"],
      [title |-> "A", identifierref |-> "res_qti"],
      [identifierref |-> "res_discussion"] }

\* The content nested in content.
NestedLabels ==
    { [identifierref |-> "res_qti"],
      [title |-> "B", identifierref |-> "res_weblink"],
      [identifierref |-> "res_qti_empty"],
      [identifierref |-> "res_lti"],
      [identifierref |-> "res_discussion"] }

\* The keys other than "children" of a node of the given family and level.
\* Family "structure" varies the containers, family "content" the content.
Labels(family, level) ==
    IF family = "structure"
    THEN IF level <= 3
         THEN {NoAttrs, [title |-> Titles[level]]}
         ELSE {[identifierref |-> "res_html"]}
    ELSE IF level = 4 THEN ContentLabels ELSE NestedLabels

\* The nodes without nodes under them: with no "children" key and, in the
\* family "structure", also with an empty one.
Childless(family, level) ==
    IF family = "structure"
    THEN Labels(family, level)
         \cup {lab @@ [children |-> <<>>] : lab \in Labels(family, level)}
    ELSE Labels(family, level)

\* The deepest level of a family.
LastLevel(family) == IF family = "structure" THEN 4 ELSE 3 + MaxContentNodes

RECURSIVE NodesOfSize(_, _, _), ForestsOfSize(_, _, _)
\* The outline nodes of a level that have n nodes in all, themselves
\* included.
NodesOfSize(family, level, n) ==
    IF n = 1 THEN Childless(family, level)
    ELSE IF level >= LastLevel(family) THEN {}
    ELSE {lab @@ [children |-> f] :
             lab \in Labels(family, level),
             f \in ForestsOfSize(family, level + 1, n - 1)}

\* The lists of outline nodes of a level that have n nodes in all.
ForestsOfSize(family, level, n) ==
    IF n = 0 THEN {<<>>}
    ELSE UNION {{<<x>> \o rest :
                    x \in NodesOfSize(family, level, k),
                    rest \in ForestsOfSize(family, level, n - k)} :
                k \in 1..n}

\* normalized['children'] of the cartridges of the model.
Outlines ==
    UNION {ForestsOfSize("structure", 1, n) : n \in 0..MaxOutlineNodes}
    \cup {<<[title |-> "A",
             children |-> <<[children |-> <<[title |-> "B",
                                             children |-> f]>>]>>]>> :
             f \in UNION {ForestsOfSize("content", 4, n) :
                             n \in 0..MaxContentNodes}}

(***************************************************************************)
(* OlxExport.xml and OlxExport._add_olx_nodes, one loop turn at a time.    *)
(* A frame of the stack is one call of _add_olx_nodes: its arguments       *)
(* (element, course_data, tags), the index i of element_data in            *)
(* course_data, at ("for" at line 72, "attach" at line 79), the list       *)
(* children, the index j of child in it, and path, the path of the outline *)
(* node whose children course_data is.                                     *)
(***************************************************************************)
Tags == <<"chapter", "sequential", "vertical">>

\* tags, handed on whole.
RestSame(tags) == tags

\* tags[1:]
Rest(tags) == IF tags = <<>> THEN <<>> ELSE Tail(tags)

\* The frame of a call _add_olx_nodes(element, course_data, tags).
Call(element, course_data, tags, path) ==
    [element |-> element, course_data |-> course_data, tags |-> tags,
     path |-> path, i |-> 1, at |-> "for", children |-> <<>>, j |-> 1]

Top == stack[Len(stack)]

\* The stack with its innermost frame replaced.
WithTop(f) == [stack EXCEPT ![Len(stack)] = f]

TreeInit ==
    /\ cartridge \in {[org |-> "org", title |-> "Course", normalized |-> [children |-> o]] :
                         o \in Outlines}
    /\ doc = <<>>
    /\ stack = <<>>
    /\ pc = "init"
    /\ error = None
    /\ html = <<>> /\ rewritten = <<>>
    /\ link = None /\ classified = <<>>

\* xml(), lines 35-45: the document, its comment, the course element, and
\* the call of _add_olx_nodes on the chapters.
Xml ==
    /\ pc = "init"
    /\ LET document == [CreateElement("#document") EXCEPT !.kids = <<2, 3>>]
           comment  == [CreateElement("#comment") EXCEPT
                           !.text = <<" Generated by cc2olx ">>]
           c0 == CreateElement("course")
           c1 == SetAttribute(c0, "org", cartridge.org)
           c2 == SetAttribute(c1, "course", "Some_cc_Course")
           xcourse == SetAttribute(c2, "name", cartridge.title)
           place(n) == n @@ [origin |-> <<>>, ord |-> 1]
       IN  /\ doc' = <<place(document), place(comment), place(xcourse)>>
           /\ stack' = <<Call(3, cartridge.normalized.children, Tags, <<>>)>>
    /\ pc' = "running"
    /\ UNCHANGED <<cartridge, error, html, rewritten, link, classified>>

\* The list children of lines 73-77 for element_data: the exception, or
\* the new nodes.
ChildrenFor(element_data, tags) ==
    IF tags = <<>>
    THEN LET content == GetContent(element_data)
         IN  CreateOlxNodes(content.type, content.details)
    ELSE [raised |-> FALSE, nodes |-> <<CreateElement(tags[1])>>]

\* Lines 72-77: the next element_data of the loop, its children created.
CreateChildren ==
    /\ pc = "running"
    /\ Top.at = "for"
    /\ Top.i <= Len(Top.course_data)
    /\ LET made == ChildrenFor(Top.course_data[Top.i], Top.tags)
           n == Len(made.nodes)
       IN  /\ ~made.raised
           /\ doc' = doc \o [k \in 1..n |->
                               made.nodes[k] @@
                               [origin |-> Append(Top.path, Top.i), ord |-> k]]
           /\ stack' = WithTop([Top EXCEPT
                                   !.at = "attach",
                                   !.children = [k \in 1..n |-> Len(doc) + k],
                                   !.j = 1])
    /\ UNCHANGED <<cartridge, pc, error, html, rewritten, link, classified>>

\* Line 150: the exception leaves _add_olx_nodes and xml; nothing catches it.
RaiseUnsupported ==
    /\ pc = "running"
    /\ Top.at = "for"
    /\ Top.i <= Len(Top.course_data)
    /\ LET made == ChildrenFor(Top.course_data[Top.i], Top.tags)
       IN  /\ made.raised
           /\ error' = made.type
    /\ pc' = "raised"
    /\ stack' = <<>>
    /\ UNCHANGED <<cartridge, doc, html, rewritten, link, classified>>

\* The display name set only on a node that has none.
TitledIfUnset(node, element_data) ==
    IF "title" \in DOMAIN element_data
       /\ "display_name" \notin DOMAIN node.attrs
    THEN SetAttribute(node, "display_name", element_data["title"])
    ELSE node

\* Lines 80-81 for a child.
Titled(node, element_data) ==
    IF "title" \in DOMAIN element_data
    THEN SetAttribute(node, "display_name", element_data["title"])
    ELSE node

\* The child put before the others.
InsertFirst(kids, child) == <<child>> \o kids

\* Line 83: element.appendChild(child), on the list of element's children.
AppendChild(kids, child) == Append(kids, child)

\* The call made only while tags are left.
CallsForContainers(child, element_data, tags, path) ==
    IF "children" \in DOMAIN element_data /\ tags # <<>>
    THEN <<Call(child, element_data["children"], Rest(tags), path)>>
    ELSE <<>>

\* Lines 85-86: the calls made for a child, none or one.
CallsFor(child, element_data, tags, path) ==
    IF "children" \in DOMAIN element_data
    THEN <<Call(child, element_data["children"], Rest(tags), path)>>
    ELSE <<>>

\* Lines 79-86 for one child: its display name, its place under element,
\* and the call on the children of element_data.
AttachChild ==
    /\ pc = "running"
    /\ Top.at = "attach"
    /\ Top.j <= Len(Top.children)
    /\ LET element_data == Top.course_data[Top.i]
           child == Top.children[Top.j]
           parent == Top.element
           advanced == WithTop([Top EXCEPT !.j = Top.j + 1])
       IN  /\ doc' = [doc EXCEPT
                         ![child] = Titled(doc[child], element_data),
                         ![parent].kids = AppendChild(doc[parent].kids, child)]
           /\ stack' = advanced \o CallsFor(child, element_data, Top.tags,
                                             Append(Top.path, Top.i))
    /\ UNCHANGED <<cartridge, pc, error, html, rewritten, link, classified>>

\* The loop of line 72 taken again for the same element_data, which then
\* has no children left to append.
SameElement ==
    /\ pc = "running"
    /\ Top.at = "attach"
    /\ Top.j > Len(Top.children)
    /\ stack' = WithTop([Top EXCEPT !.children = <<>>, !.j = 1])
    /\ UNCHANGED <<cartridge, doc, pc, error, html, rewritten, link, classified>>

\* Line 79 exhausted: back to line 72 for the next element_data.
NextElement ==
    /\ pc = "running"
    /\ Top.at = "attach"
    /\ Top.j > Len(Top.children)
    /\ stack' = WithTop([Top EXCEPT
                            !.i = Top.i + 1, !.at = "for", !.children = <<>>])
    /\ UNCHANGED <<cartridge, doc, pc, error, html, rewritten, link, classified>>

\* Line 72 exhausted in a nested call: back to its caller.
Return ==
    /\ pc = "running"
    /\ Len(stack) > 1
    /\ Top.at = "for"
    /\ Top.i > Len(Top.course_data)
    /\ stack' = SubSeq(stack, 1, Len(stack) - 1)
    /\ UNCHANGED <<cartridge, doc, pc, error, html, rewritten, link, classified>>

\* Line 72 exhausted in the call made by xml: line 47, the document.
XmlReturn ==
    /\ pc = "running"
    /\ Len(stack) = 1
    /\ Top.at = "for"
    /\ Top.i > Len(Top.course_data)
    /\ stack' = <<>>
    /\ pc' = "returned"
    /\ UNCHANGED <<cartridge, doc, error, html, rewritten, link, classified>>

Next ==
    \/ Xml
    \/ CreateChildren
    \/ RaiseUnsupported
    \/ AttachChild
    \/ NextElement
    \/ Return
    \/ XmlReturn

Spec == TreeInit /\ [][Next]_vars

(***************************************************************************)
(* What the properties speak of: the outline node a document node was      *)
(* created for, and the place of a node in the document.                   *)
(***************************************************************************)
OutlineRoot == cartridge.normalized.children

RECURSIVE NodeAt(_, _)
\* The outline node at a path.
NodeAt(forest, path) ==
    IF Len(path) = 1 THEN forest[path[1]]
    ELSE NodeAt(forest[path[1]]["children"], Tail(path))

RECURSIVE PathsUnder(_, _)
\* The paths of the outline nodes of a list and below it.
PathsUnder(forest, prefix) ==
    UNION {{Append(prefix, i)}
           \cup (IF "children" \in DOMAIN forest[i]
                 THEN PathsUnder(forest[i]["children"], Append(prefix, i))
                 ELSE {}) :
           i \in 1..Len(forest)}

OutlinePaths == PathsUnder(OutlineRoot, <<>>)

\* The number of levels of the outline, the course included: 4 for
\* chapter > sequential > vertical > content.
OutlineDepth ==
    IF OutlinePaths = {} THEN 0
    ELSE CHOOSE d \in 1..20 :
            /\ \E path \in OutlinePaths : Len(path) = d
            /\ \A path \in OutlinePaths : Len(path) <= d

\* The nodes created by _add_olx_nodes.
Elements == 4..Len(doc)

\* The outline node a document node was created for.
Source(n) == NodeAt(OutlineRoot, doc[n].origin)

NodesFor(path) == {n \in Elements : doc[n].origin = path}

\* The parents a node has been appended to, once for each time.
ParentsOf(n) ==
    {<<p, q>> \in (1..Len(doc)) \X (1..Len(doc)) :
        q <= Len(doc[p].kids) /\ doc[p].kids[q] = n}

Attached(n) == ParentsOf(n) # {}

HasDisplayName(n) == "display_name" \in DOMAIN doc[n].attrs

ContainerTags == {"chapter", "sequential", "vertical"}

\* The outline nodes whose nodes are appended to document node p.
ForestOf(p) ==
    IF p = 3 THEN OutlineRoot
    ELSE IF "children" \in DOMAIN Source(p) THEN Source(p)["children"]
    ELSE <<>>

\* The tags left for the nodes below an outline node of the given level.
TagsBelow(level) == SubSeq(Tags, level + 1, Len(Tags))

\* What the builder returns for the outline node: the nodes of its list.
Built(element_data, tags) == ChildrenFor(element_data, tags).nodes

\* Whether the node has no reference, or one the cartridge does not resolve.
IsMissing(element_data) ==
    \/ "identifierref" \notin DOMAIN element_data
    \/ GetResourceContent(element_data["identifierref"]).type = None

\* The step at line 72 is about to handle a content item.
AtContent ==
    /\ pc = "running"
    /\ Top.at = "for"
    /\ Top.i <= Len(Top.course_data)
    /\ Top.tags = <<>>

(***************************************************************************)
(* C1.  When xml() returns, every outline node of the first three levels   *)
(* has exactly one element in the document: it is tagged chapter,          *)
(* sequential or vertical by its level, it is appended once, under the     *)
(* element of its parent (the course for a chapter), and it has a          *)
(* display_name exactly when the outline node has a title, which it then   *)
(* equals.  No other element is a container.                               *)
(***************************************************************************)
ContainerPerOutlineNode ==
    pc = "returned" =>
        /\ \A path \in OutlinePaths :
              Len(path) <= 3 =>
                 LET ed == NodeAt(OutlineRoot, path)
                     up == SubSeq(path, 1, Len(path) - 1)
                 IN  /\ Cardinality(NodesFor(path)) = 1
                     /\ \A n \in NodesFor(path) :
                          /\ doc[n].tag = Tags[Len(path)]
                          /\ Cardinality(ParentsOf(n)) = 1
                          /\ \A at \in ParentsOf(n) :
                                IF up = <<>> THEN at[1] = 3
                                ELSE at[1] \in NodesFor(up)
                          /\ HasDisplayName(n) <=> "title" \in DOMAIN ed
                          /\ "title" \in DOMAIN ed =>
                                doc[n].attrs["display_name"] = ed["title"]
        /\ \A n \in Elements :
              doc[n].tag \in ContainerTags <=> Len(doc[n].origin) <= 3

\* An outline of depth four with titled and untitled containers has been
\* converted.
ContainerWitness ==
    /\ pc = "returned"
    /\ OutlineDepth = 4
    /\ \E n \in Elements : doc[n].tag = "vertical" /\ HasDisplayName(n)
    /\ \E n \in Elements : doc[n].tag = "sequential" /\ ~HasDisplayName(n)
    /\ \E n \in Elements : doc[n].tag = "chapter" /\ HasDisplayName(n)
    /\ \E n \in Elements : doc[n].tag = "html"

(***************************************************************************)
(* C2.  A content item with no identifierref, or with one the cartridge    *)
(* does not resolve, never raises: the step that handles it creates        *)
(* exactly one node, an html element whose body is <p>MISSING CONTENT</p>, *)
(* and that is the only node ever created for it at that place.            *)
(***************************************************************************)
MissingContentStep ==
    (AtContent /\ IsMissing(Top.course_data[Top.i])) =>
        /\ pc' = "running"
        /\ error' = error
        /\ Len(doc') = Len(doc) + 1
        /\ SubSeq(doc', 1, Len(doc)) = doc
        /\ stack'[Len(stack)].at = "attach"
        /\ stack'[Len(stack)].children = <<Len(doc')>>
        /\ doc'[Len(doc')].tag = "html"
        /\ doc'[Len(doc')].text = MISSING
        /\ doc'[Len(doc')].kids = <<>>
        /\ doc'[Len(doc')].origin = Append(Top.path, Top.i)

MissingContentNodes ==
    \A n \in Elements :
        (Len(doc[n].origin) >= 4 /\ IsMissing(Source(n))) =>
            /\ doc[n].tag = "html"
            /\ doc[n].text = MISSING
            /\ doc[n].ord = 1

MissingContentIsPlaceholder ==
    [][MissingContentStep]_vars /\ []MissingContentNodes

\* Placeholders stand in the document for an item without a reference and
\* for one with an unresolved reference, in a conversion that went on to
\* fail on an unsupported item.
MissingContentWitness ==
    /\ pc = "raised"
    /\ \E n \in Elements :
          /\ Attached(n)
          /\ "identifierref" \notin DOMAIN Source(n)
          /\ doc[n].tag = "html" /\ doc[n].text = MISSING
    /\ \E n \in Elements :
          /\ Attached(n)
          /\ "identifierref" \in DOMAIN Source(n)
          /\ IsMissing(Source(n))
          /\ doc[n].tag = "html" /\ doc[n].text = MISSING

(***************************************************************************)
(* C3.  A content item whose type, after link classification, is not one   *)
(* of html, video, lti and qti makes the step raise the exception naming   *)
(* that type: no node is created or appended by the step, no node of the   *)
(* document was created for the item, the calls are left without being     *)
(* caught, and xml() never returns afterwards.  Nothing else raises.       *)
(***************************************************************************)
Supported == {HTML, VIDEO, LTI, QTI}

UnsupportedStep ==
    LET unsupported ==
            /\ AtContent
            /\ GetContent(Top.course_data[Top.i]).type \notin Supported
    IN  /\ unsupported =>
              /\ pc' = "raised"
              /\ error' = GetContent(Top.course_data[Top.i]).type
              /\ doc' = doc
              /\ stack' = <<>>
              /\ NodesFor(Append(Top.path, Top.i)) = {}
        /\ pc' = "raised" => (pc = "raised" \/ unsupported)
        /\ pc = "raised" => pc' = "raised"

UnsupportedTypeAborts ==
    [][UnsupportedStep]_vars /\ [](pc = "raised" => ~ENABLED Next)

\* The conversion has failed on a discussion after building part of the
\* document.
UnsupportedWitness ==
    /\ pc = "raised"
    /\ error = "discussion"
    /\ stack = <<>>
    /\ \E n \in Elements : Attached(n) /\ doc[n].tag = "lti_consumer"

(***************************************************************************)
(* C6.  At every moment the children of every element are, in order, the   *)
(* nodes the builder returned for the outline nodes it was given, outline  *)
(* node by outline node and, for one outline node, in the order of the     *)
(* returned list: a prefix of them while the conversion runs and all of    *)
(* them when xml() returns.  None is missing, repeated or out of place.    *)
(***************************************************************************)
RECURSIVE ExpectedKids(_, _, _)
\* For the outline nodes forest[i..], the pairs <<index of the outline
\* node, place in the list built for it>> and the tag built, in order.
ExpectedKids(forest, tags, i) ==
    IF i > Len(forest) THEN <<>>
    ELSE LET built == Built(forest[i], tags)
         IN  [k \in 1..Len(built) |->
                 [index |-> i, ord |-> k, tag |-> built[k].tag]]
             \o ExpectedKids(forest, tags, i + 1)

\* The same of the nodes appended to p.
ActualKids(p) ==
    [q \in 1..Len(doc[p].kids) |->
        LET n == doc[p].kids[q]
        IN  [index |-> doc[n].origin[Len(doc[n].origin)],
             ord |-> doc[n].ord, tag |-> doc[n].tag]]

SiblingsInInputOrder ==
    \A p \in 3..Len(doc) :
        LET actual == ActualKids(p)
            expected == ExpectedKids(ForestOf(p),
                                     TagsBelow(Len(doc[p].origin)), 1)
        IN  /\ Len(actual) <= Len(expected)
            /\ actual = SubSeq(expected, 1, Len(actual))
            /\ \A q \in 1..Len(actual) :
                  doc[doc[p].kids[q]].origin
                     = Append(doc[p].origin, actual[q].index)
            /\ pc = "returned" => actual = expected

\* A vertical has received the two nodes of one outline node and then the
\* node of the next.
SiblingsWitness ==
    /\ pc = "returned"
    /\ \E p \in Elements :
          /\ doc[p].tag = "vertical"
          /\ Len(doc[p].kids) = 3
          /\ doc[doc[p].kids[1]].origin = doc[doc[p].kids[2]].origin
          /\ doc[doc[p].kids[2]].origin # doc[doc[p].kids[3]].origin

(***************************************************************************)
(* C8.  When xml() returns, every node created for a content item (an      *)
(* outline node of level four or deeper) is content, never a container,    *)
(* and if the item has children then each of the nodes created for it has  *)
(* under it, for each child in turn, the nodes the content builder makes   *)
(* for that child; an item without children gives nodes without children.  *)
(* So the children are visited once for each node of their parent.         *)
(***************************************************************************)
\* The tags of the nodes under n that were created for child i of its item.
KidTagsFor(n, i) ==
    LET mine == SelectSeq(ActualKids(n), LAMBDA k : k.index = i)
    IN  [q \in 1..Len(mine) |-> mine[q].tag]

\* The tags of the nodes the content builder makes for an item.
ContentTags(element_data) ==
    LET content == GetContent(element_data)
        made == CreateOlxNodes(content.type, content.details).nodes
    IN  [k \in 1..Len(made) |-> made[k].tag]

CompositeContent ==
    pc = "returned" =>
        \A n \in Elements :
            Len(doc[n].origin) >= 4 =>
                /\ doc[n].tag \notin ContainerTags
                /\ Attached(n)
                /\ IF "children" \in DOMAIN Source(n)
                   THEN LET below == Source(n)["children"]
                        IN  /\ \A i \in 1..Len(below) :
                                  /\ KidTagsFor(n, i) = ContentTags(below[i])
                                  /\ Cardinality(NodesFor(Append(doc[n].origin, i)))
                                        = Cardinality(NodesFor(doc[n].origin))
                                            * Len(ContentTags(below[i]))
                            /\ \A q \in 1..Len(doc[n].kids) :
                                  ActualKids(n)[q].index \in 1..Len(below)
                   ELSE doc[n].kids = <<>>

\* Two nodes created for one item each have nodes under them, and one of
\* those has nodes under it in turn.
CompositeWitness ==
    /\ pc = "returned"
    /\ \E n, m \in Elements :
          /\ n # m
          /\ doc[n].origin = doc[m].origin
          /\ Len(doc[n].origin) = 4
          /\ doc[n].kids # <<>> /\ doc[m].kids # <<>>
          /\ \E q \in 1..Len(doc[m].kids) : doc[doc[m].kids[q]].kids # <<>>

(***************************************************************************)
(* C10.  Every node appended for a content item that has a title has that  *)
(* title as display_name, an lti_consumer included; for an item without a  *)
(* title an lti_consumer keeps the title of its details as display_name    *)
(* and an html or video node has no display_name.                          *)
(***************************************************************************)
ContentDisplayName ==
    \A n \in Elements :
        (Len(doc[n].origin) >= 4 /\ Attached(n)) =>
            IF "title" \in DOMAIN Source(n)
            THEN /\ HasDisplayName(n)
                 /\ doc[n].attrs["display_name"] = Source(n)["title"]
            ELSE IF doc[n].tag = "lti_consumer"
            THEN /\ HasDisplayName(n)
                 /\ doc[n].attrs["display_name"]
                       = GetContent(Source(n)).details.title
            ELSE doc[n].tag \in {"html", "video"} => ~HasDisplayName(n)

\* A titled and an untitled LTI item and an untitled video are in the
\* document.
DisplayNameWitness ==
    /\ pc = "returned"
    /\ \E n \in Elements :
          /\ Attached(n) /\ doc[n].tag = "lti_consumer"
          /\ "title" \in DOMAIN Source(n)
          /\ doc[n].attrs["display_name"] = "A"
    /\ \E n \in Elements :
          /\ Attached(n) /\ doc[n].tag = "lti_consumer"
          /\ "title" \notin DOMAIN Source(n)
          /\ doc[n].attrs["display_name"] = "Tool"
    /\ \E n \in Elements :
          /\ Attached(n) /\ doc[n].tag = "video" /\ ~HasDisplayName(n)

(***************************************************************************)
(* C9.  The conversion terminates, also for outlines with content nested   *)
(* in content: every step lowers Rank, a natural number, the number of     *)
(* steps a conversion without exception still has to take; Rank is zero    *)
(* exactly when xml() has returned or raised; and until then a step can    *)
(* always be taken.                                                        *)
(***************************************************************************)
RECURSIVE WorkOf(_, _, _)
\* The steps for the outline nodes forest[i..] handled with the given tags:
\* for each, lines 72-77 once, lines 79-86 once for each child and, with
\* it, the call on the outline node's children and its return, and the
\* end of the loop of line 79.
WorkOf(forest, tags, i) ==
    IF i > Len(forest) THEN 0
    ELSE LET ed == forest[i]
             below == IF "children" \in DOMAIN ed
                      THEN WorkOf(ed["children"], Rest(tags), 1) + 1
                      ELSE 0
         IN  2 + Len(Built(ed, tags)) * (1 + below)
             + WorkOf(forest, tags, i + 1)

\* The steps left in a call, its return included.
FrameRank(f) ==
    IF f.at = "for" THEN 1 + WorkOf(f.course_data, f.tags, f.i)
    ELSE LET ed == f.course_data[f.i]
             below == IF "children" \in DOMAIN ed
                      THEN WorkOf(ed["children"], Rest(f.tags), 1) + 1
                      ELSE 0
         IN  1 + (Len(f.children) - f.j + 1) * (1 + below) + 1
             + WorkOf(f.course_data, f.tags, f.i + 1)

RECURSIVE SumRanks(_)
SumRanks(frames) ==
    IF frames = <<>> THEN 0
    ELSE FrameRank(Head(frames)) + SumRanks(Tail(frames))

\* The steps left when the position is p, the outline root and the stack
\* frames.
RankOf(p, root, frames) ==
    CASE p = "init" -> 2 + WorkOf(root, Tags, 1)
      [] p = "running" -> SumRanks(frames)
      [] OTHER -> 0

Rank == RankOf(pc, OutlineRoot, stack)

\* A step leaves fewer steps to take than there were before it.
RankDecreases ==
    \A p \in {pc'}, root \in {OutlineRoot'}, frames \in {stack'} :
        RankOf(p, root, frames) < Rank

\* The loop of line 72 is at an element_data, for which lines 73-77 either
\* make the children or raise.
AtElement ==
    /\ pc = "running"
    /\ Top.at = "for"
    /\ Top.i <= Len(Top.course_data)
    /\ ChildrenFor(Top.course_data[Top.i], Top.tags).raised \in BOOLEAN

\* The conversion is over, or it has a step to take.
OverOrStepping ==
    \/ pc \in {"returned", "raised"}
    \/ ENABLED Xml
    \/ AtElement
    \/ ENABLED AttachChild
    \/ ENABLED NextElement
    \/ ENABLED Return
    \/ ENABLED XmlReturn

\* Rank is a natural number, zero exactly when the conversion is over.
RankEndsAtZero ==
    \A r \in {Rank} : r >= 0 /\ (r = 0 <=> pc \in {"returned", "raised"})

Terminates ==
    /\ [][RankDecreases]_vars
    /\ []RankEndsAtZero
    /\ []OverOrStepping

\* An outline of six levels has been converted.
TerminatesWitness == pc = "returned" /\ OutlineDepth >= 6

(***************************************************************************)
(* The runs of the rewriter: the text run k was given, and the src values  *)
(* in it that carry the token.                                             *)
(***************************************************************************)
Input(k) == IF k = 1 THEN html ELSE rewritten[k - 1]

\* The matches of the src pattern in a text whose value contains
\* IMS-CC-FILEBASE, in order.
TokenMatches(text) ==
    SelectSeq(SrcMatchesFrom(text, 1),
              LAMBDA m : Contains(SubSeq(text, m.g, m.e - 1), FILEBASE))

(***************************************************************************)
(* C4.  Run again on its own output, the rewriter returns it unchanged     *)
(* whenever no src value of that output contains IMS-CC-FILEBASE.          *)
(***************************************************************************)
RewrittenIsLeftAlone ==
    \A k \in 2..Len(rewritten) :
        TokenMatches(rewritten[k - 1]) = <<>> => rewritten[k] = rewritten[k - 1]

\* A text was rewritten, its output has no src value with the token, and
\* the rewriter has run on that output.
RewrittenWitness ==
    /\ Len(rewritten) >= 2
    /\ rewritten[1] # html
    /\ TokenMatches(rewritten[1]) = <<>>
    /\ rewritten[2] = rewritten[1]

\* C4 as stated: rewrite(rewrite(x)) = rewrite(x) for every text x.
RewriteIdempotent ==
    \A k \in 2..Len(rewritten) : rewritten[k] = rewritten[k - 1]

Segments(x, ms) ==
    [i \in 1..(Len(ms) + 1) |->
        SubSeq(x,
               IF i = 1 THEN 1 ELSE ms[i - 1].e,
               IF i = Len(ms) + 1 THEN Len(x) ELSE ms[i].g - 1)]

RECURSIVE KeepsFrom(_, _, _, _)
\* y[p..] is made of segs[i..], in order, with any text between one and
\* the next, and ends with the last of them.
KeepsFrom(y, p, segs, i) ==
    LET n == Len(segs[i])
    IN  IF i = Len(segs)
        THEN /\ Len(y) - n + 1 >= p
             /\ SubSeq(y, Len(y) - n + 1, Len(y)) = segs[i]
        ELSE \E q \in p..(Len(y) - n + 1) :
                 /\ SubSeq(y, q, q + n - 1) = segs[i]
                 /\ KeepsFrom(y, q + n, segs, i + 1)

\* y is segs with some text between each segment and the next.
Keeps(y, segs) ==
    IF Len(segs) = 1 THEN y = segs[1]
    ELSE /\ Len(y) >= Len(segs[1])
         /\ SubSeq(y, 1, Len(segs[1])) = segs[1]
         /\ KeepsFrom(y, Len(segs[1]) + 1, segs, 2)

YoutubeAt(href) ==
    {p \in 1..(Len(href) - 4) :
        /\ SubSeq(href, p, p + 3) = <<"youtube", ".", "com", "/watch?v=">>
        /\ href[p + 4] \in IdChars}

ClassifiedByYoutubeUrl ==
    classified # <<>> =>
        LET r == classified[1]
            at == YoutubeAt(link["href"])
        IN  IF at # {}
            THEN /\ r.type = "video"
                 /\ \E p \in at :
                        r.details = [youtube |->
                            SubSeq(link["href"], p + 4,
                                   IdEnd(link["href"], p + 4))]
            ELSE /\ r.type = "html"
                 /\ r.details = [html |->
                        <<"<a href='">> \o link["href"] \o <<"'>">>
                        \o LinkText(link) \o <<"</a>">>]

====
